---- MODULE Spec2Model ----
(***************************************************************************)
(* Model of the host process control layer of minecraft-manager:           *)
(*   src/src/utils.py         sanitize_filename                            *)
(*   src/src/host_service.py  Result, ScreenService, LinuxScreenService,   *)
(*                            ScreenPlatformService                        *)
(* A Python str is a sequence of one-character strings; None/Optional is a *)
(* sequence of length 0 or 1 (None == <<>>, a present value v == <<v>>).   *)
(***************************************************************************)
EXTENDS Integers, Sequences, FiniteSets, TLC

VARIABLES
    sessions,   \* the multiplexer's live session table, in listing order
    pc,         \* position of the caller: idle / wait_poll / wait_sleep / done
    op,         \* the operation in progress or just returned
    ret,        \* what the operation returned (meaningful when pc = "done")
    calls,      \* the backend calls the controller made during op, in order
    elapsed,    \* time.monotonic() - start of the wait_term in progress
    sleeps,     \* number of time.sleep calls of the wait_term in progress
    lag,        \* duration of the latest poll plus oversleep of the sleep before it
    present,    \* what the latest self.exists(name) of wait_term returned
    proc,       \* the CompletedProcess of the listing command behind ret
    listed,     \* the Result of the list() call behind ret
    cli,        \* the command-line processes: their command, position and outcome
    files       \* the files of the directory in use: file name -> content

vars == <<sessions, pc, op, ret, calls, elapsed, sleeps, lag, present, proc, listed, cli, files>>

(***************************************************************************)
(* Bounds of the model.                                                    *)
(***************************************************************************)
MaxSessions == 2    \* sessions registered at a time
MaxPollCost == 1    \* ticks one `screen -ls` may take
MaxOversleep == 1   \* ticks time.sleep may exceed its argument
MaxPollInterval == 1 \* largest poll_interval of a direct wait_term call
MaxTimeout == 2     \* largest timeout of a direct wait_term call
MaxSleeps == 3      \* sleeps of a wait_term that no deadline ends
MaxStdout == 5      \* characters of stdout fed to list() in SpecList
MaxName == 5        \* characters of a name fed to the naming functions in SpecNames
MaxFilename == 4    \* characters of a name fed to sanitize_filename in SpecSanitize
MaxSaves == 3       \* saves made to the profile store in SpecProfiles
MaxFiles == 3       \* files of the backup directory in SpecBackups

(***************************************************************************)
(* Python str helpers.                                                     *)
(***************************************************************************)
None == <<>>
Some(v) == <<v>>

\* str.isspace for the characters of the model
Whitespace == {" ", "\t", "\n"}

\* str.lower, character by character
LowerChar(c) ==
    CASE c = "A" -> "a"
      [] c = "B" -> "b"
      [] OTHER -> c

Lower(s) == [i \in 1..Len(s) |-> LowerChar(s[i])]

RECURSIVE LStrip(_, _)
LStrip(s, chars) ==
    IF s # <<>> /\ Head(s) \in chars THEN LStrip(Tail(s), chars) ELSE s

RECURSIVE RStrip(_, _)
RStrip(s, chars) ==
    IF s # <<>> /\ s[Len(s)] \in chars
    THEN RStrip(SubSeq(s, 1, Len(s) - 1), chars)
    ELSE s

\* str.strip(chars)
Strip(s, chars) == RStrip(LStrip(s, chars), chars)

\* s.startswith(p)
StartsWith(s, p) == Len(s) >= Len(p) /\ SubSeq(s, 1, Len(p)) = p

\* c in s
Contains(s, c) == \E i \in 1..Len(s) : s[i] = c

\* s.split(sep) for a one-character separator: every separator cuts
RECURSIVE SplitAcc(_, _, _)
SplitAcc(s, sep, cur) ==
    IF s = <<>> THEN <<cur>>
    ELSE IF Head(s) = sep THEN <<cur>> \o SplitAcc(Tail(s), sep, <<>>)
    ELSE SplitAcc(Tail(s), sep, Append(cur, Head(s)))

Split(s, sep) == SplitAcc(s, sep, <<>>)

\* s.split(): fields separated by runs of whitespace, no empty fields
RECURSIVE SplitWsAcc(_, _)
SplitWsAcc(s, cur) ==
    IF s = <<>> THEN (IF cur = <<>> THEN <<>> ELSE <<cur>>)
    ELSE IF Head(s) \in Whitespace
         THEN (IF cur = <<>> THEN <<>> ELSE <<cur>>) \o SplitWsAcc(Tail(s), <<>>)
         ELSE SplitWsAcc(Tail(s), Append(cur, Head(s)))

SplitWs(s) == SplitWsAcc(s, <<>>)

\* s.splitlines(): lines end at "\n"; a final newline opens no empty line
RECURSIVE SplitLinesAcc(_, _)
SplitLinesAcc(s, cur) ==
    IF s = <<>> THEN (IF cur = <<>> THEN <<>> ELSE <<cur>>)
    ELSE IF Head(s) = "\n" THEN <<cur>> \o SplitLinesAcc(Tail(s), <<>>)
    ELSE SplitLinesAcc(Tail(s), Append(cur, Head(s)))

SplitLines(s) == SplitLinesAcc(s, <<>>)

\* "\n".join-like concatenation of a sequence of strings
RECURSIVE Concat(_)
Concat(ss) == IF ss = <<>> THEN <<>> ELSE Head(ss) \o Concat(Tail(ss))

(***************************************************************************)
(* utils.py                                                                *)
(***************************************************************************)
\* the character class of `illegals`: < > : " / \ | ? * and \s
Illegals == {"<", ">", ":", "\"", "/", "\\", "|", "?", "*"} \cup Whitespace

\* re.sub(illegals, "_", s): each maximal run becomes one underscore
RECURSIVE ReSubIllegals(_, _)
ReSubIllegals(s, inRun) ==
    IF s = <<>> THEN <<>>
    ELSE IF Head(s) \in Illegals
         THEN (IF inRun THEN <<>> ELSE <<"_">>) \o ReSubIllegals(Tail(s), TRUE)
         ELSE <<Head(s)>> \o ReSubIllegals(Tail(s), FALSE)

sanitize_filename(name) == ReSubIllegals(Strip(Lower(name), {" "}), FALSE)

(***************************************************************************)
(* host_service.py: OperationError and Result                              *)
(***************************************************************************)
OperationErrorType ==
    {"COMMAND_FAILED", "TIMEOUT", "NOT_FOUND", "PERMISSION_DENIED",
     "INVALID_STATE", "UNKNOWN"}

OperationError(error_type, message, return_code, stderr, stdout) ==
    [error_type |-> error_type, message |-> message,
     return_code |-> return_code, stderr |-> stderr, stdout |-> stdout]

\* Result.success(value): value is a Python value, None included
success(value) == [value |-> value, error |-> None]

\* Result.failure(error)
failure(error) == [value |-> None, error |-> Some(error)]

is_success(r) == r.error = None

\* is_error written as "there is no value"
is_error_ByValue(r) == r.value = None

is_error(r) == r.error # None

\* Result.unwrap(): what it returns, or the exception it raises
unwrap(r) ==
    IF is_error(r) THEN [returned |-> None, raised |-> Some("ValueError")]
    ELSE [returned |-> Some(r.value), raised |-> None]

\* Result.unwrap_or(default)
unwrap_or(r, default) == IF is_error(r) THEN default ELSE r.value

(***************************************************************************)
(* host_service.py: ScreenService and LinuxScreenService, as functions of  *)
(* the CompletedProcess that run() returned                                *)
(***************************************************************************)
\* ScreenService.trim_id: the list element at index 1 of name.split(".")
trim_id(name) == IF Contains(name, ".") THEN Split(name, ".")[2] ELSE name

_normalize_name(name) == sanitize_filename(name)

\* the loop of LinuxScreenService.list over lines[1:-1]
RECURSIVE ParseSessionLines(_, _)
ParseSessionLines(lines, trim) ==
    IF lines = <<>> THEN <<>>
    ELSE LET line == Strip(Head(lines), Whitespace)
             rest == ParseSessionLines(Tail(lines), trim)
         IN IF line = <<>> THEN rest
            ELSE LET name == SplitWs(line)[1]
                 IN <<IF trim THEN trim_id(name) ELSE name>> \o rest

\* list reading every line after the header, the footer included
list_KeepFooter(result, trim) ==
    LET lines == SplitLines(result.stdout)
    IN IF result.returncode \notin {0, 1}
       THEN failure(OperationError("COMMAND_FAILED",
                                   <<"Failed to list screen sessions">>,
                                   Some(result.returncode),
                                   Some(result.stderr), Some(result.stdout)))
       ELSE IF Len(lines) < 2 THEN success(Some(<<>>))
       ELSE success(Some(ParseSessionLines(SubSeq(lines, 2, Len(lines)), trim)))

\* list with the failure test written `returncode > 1`
list_SignedCodes(result, trim) ==
    LET lines == SplitLines(result.stdout)
    IN IF result.returncode > 1
       THEN failure(OperationError("COMMAND_FAILED",
                                   <<"Failed to list screen sessions">>,
                                   Some(result.returncode),
                                   Some(result.stderr), Some(result.stdout)))
       ELSE IF Len(lines) < 2 THEN success(Some(<<>>))
       ELSE success(Some(ParseSessionLines(SubSeq(lines, 2, Len(lines) - 1), trim)))

\* LinuxScreenService.list(trim_id) given the result of run(["screen", "-ls"])
list(result, trim) ==
    LET lines == SplitLines(result.stdout)
    IN IF result.returncode \notin {0, 1}
       THEN failure(OperationError("COMMAND_FAILED",
                                   <<"Failed to list screen sessions">>,
                                   Some(result.returncode),
                                   Some(result.stderr), Some(result.stdout)))
       ELSE IF Len(lines) < 2 THEN success(Some(<<>>))
       ELSE success(Some(ParseSessionLines(SubSeq(lines, 2, Len(lines) - 1), trim)))

\* ScreenService.exists(name) given the result of the listing command
base_exists(result, name) ==
    LET r == list(result, TRUE)
    IN IF is_error(r) THEN FALSE
       ELSE \E i \in 1..Len(r.value[1]) : r.value[1][i] = name

\* LinuxScreenService.exists(name)
exists(result, name) == base_exists(result, _normalize_name(name))

\* LinuxScreenService.create(name, command) given the result of run(args)
create(result, name, command) ==
    IF result.returncode # 0
    THEN failure(OperationError("COMMAND_FAILED",
                                <<"Failed to create screen session", _normalize_name(name)>>,
                                Some(result.returncode),
                                Some(result.stderr), Some(result.stdout)))
    ELSE success(None)

\* the argument vector create hands to run()
create_args(name, command) ==
    <<"screen", "-dmS", _normalize_name(name), "bash", "-c", command>>

\* the argument vector stuff hands to run()
stuff_args(name, command) ==
    <<"screen", "-S", _normalize_name(name), "-X", "stuff", command \o <<"\n">> >>

\* stuff with the failure test written `returncode > 0`
stuff_SignedCodes(result, name, command) ==
    IF result.returncode > 0
    THEN failure(OperationError("COMMAND_FAILED",
                                <<"Failed to send command to screen session", _normalize_name(name)>>,
                                Some(result.returncode),
                                Some(result.stderr), Some(result.stdout)))
    ELSE success(None)

\* LinuxScreenService.stuff(name, command) given the result of run(args)
stuff(result, name, command) ==
    IF result.returncode # 0
    THEN failure(OperationError("COMMAND_FAILED",
                                <<"Failed to send command to screen session", _normalize_name(name)>>,
                                Some(result.returncode),
                                Some(result.stderr), Some(result.stdout)))
    ELSE success(None)

\* the Timeout failure built with the kind UNKNOWN
TimeoutFailure_Unknown(name, timeout) ==
    failure(OperationError("UNKNOWN",
                           <<"Timeout waiting for screen session", _normalize_name(name), timeout>>,
                           None, None, None))

\* the Timeout failure of LinuxScreenService.wait_term
TimeoutFailure(name, timeout) ==
    failure(OperationError("TIMEOUT",
                           <<"Timeout waiting for screen session", _normalize_name(name), timeout>>,
                           None, None, None))

\* the deadline test taking an absent timeout for a deadline already passed
DeadlinePassed_NoneIsPassed(timeout, now) == timeout = None \/ now > timeout[1]

\* the deadline test written `>= timeout`
DeadlinePassed_AtDeadline(timeout, now) == timeout # None /\ now >= timeout[1]

\* the deadline test of wait_term: timeout is not None and monotonic() - start > timeout
DeadlinePassed(timeout, now) == timeout # None /\ now > timeout[1]

(***************************************************************************)
(* host_service.py: ScreenPlatformService (pure parts)                     *)
(***************************************************************************)
Prefix == <<"m", "c", "m">>

\* __to_local_name joining prefix and name without the dash
to_local_name_NoDash(base) == Prefix \o base

to_local_name(base) == Prefix \o <<"-">> \o base

\* __strip_local_name dropping the prefix but not the dash
strip_local_name_KeepDash(base) == SubSeq(base, Len(Prefix) + 1, Len(base))

strip_local_name(base) == SubSeq(base, Len(Prefix) + 2, Len(base))

\* the filter of __list_local_sessions: name.startswith(self.__prefix)
IsLocalSession(session) == StartsWith(trim_id(session), Prefix)

RECURSIVE FilterLocal(_)
FilterLocal(ss) ==
    IF ss = <<>> THEN <<>>
    ELSE (IF IsLocalSession(Head(ss)) THEN <<Head(ss)>> ELSE <<>>) \o FilterLocal(Tail(ss))

\* ScreenPlatformService.__list_local_sessions given the backend's list() result
list_local_sessions(r) ==
    IF is_error(r) THEN r ELSE success(Some(FilterLocal(r.value[1])))

HostDescriptor(name, host_location) == [name |-> name, host_location |-> host_location]

ScreenAt == <<"s", "c", "r", "e", "e", "n", "@">>

\* list_running answering a failed listing with an empty list
list_running_Swallow(r) ==
    LET sessions_result == list_local_sessions(r)
    IN IF is_error(sessions_result) THEN success(Some(<<>>))
       ELSE LET ss == sessions_result.value[1]
            IN success(Some([i \in 1..Len(ss) |->
                   HostDescriptor(strip_local_name(trim_id(ss[i])), ScreenAt \o ss[i])]))

\* ScreenPlatformService.list_running given the backend's list() result
list_running(r) ==
    LET sessions_result == list_local_sessions(r)
    IN IF is_error(sessions_result) THEN failure(sessions_result.error[1])
       ELSE LET ss == sessions_result.value[1]
            IN success(Some([i \in 1..Len(ss) |->
                   HostDescriptor(strip_local_name(trim_id(ss[i])), ScreenAt \o ss[i])]))

(***************************************************************************)
(* The environment: the multiplexer and its session table                  *)
(***************************************************************************)
\* logical server names the caller uses: plain, upper case, dotted, spaced
Names == { <<"a">>, <<"A">>, <<"a", ".", "b">>, <<"a", " ", "b">> }

\* names of sessions created outside this program
ForeignNames == { <<"o", "-", "b">>, <<"m", "c", "m", "x">> }

PidChars == <<"1", "2", "3", "4", "5", "6", "7", "8", "9">>

\* exit codes the external commands may end with
ExitCodes == {0, 1, 2}

ErrText == <<"e", "r", "r">>

CompletedProcess(returncode, stdout, stderr) ==
    [returncode |-> returncode, stdout |-> stdout, stderr |-> stderr]

\* the token `screen -ls` prints for a session: "<pid>.<name>"
Token(s) == <<s.pid>> \o <<".">> \o s.name

\* the pid of the next session: the first one no live session has
NewPid(ss) ==
    PidChars[CHOOSE i \in 1..Len(PidChars) :
                /\ \A j \in 1..Len(ss) : ss[j].pid # PidChars[i]
                /\ \A k \in 1..(i - 1) : \E j \in 1..Len(ss) : ss[j].pid = PidChars[k]]

RemoveAt(ss, i) == SubSeq(ss, 1, i - 1) \o SubSeq(ss, i + 1, Len(ss))

\* stdout of `screen -ls`: a header, one line per session, a footer
ListingHeader == <<"O", "n", ":", "\n">>
ListingFooter == <<"1", " ", "S", ".", "\n">>
NoSockets == <<"N", "o", " ", "S", ".", "\n">>

SessionLine(s) == <<"\t">> \o Token(s) \o <<"\t", "(", "D", ")", "\n">>

ListingStdout(ss) ==
    ListingHeader \o Concat([i \in 1..Len(ss) |-> SessionLine(ss[i])]) \o ListingFooter

\* what run(["screen", "-ls"]) may return: the listing (exit code 1 and no
\* session line when the table is empty), or a failure of the command itself
ScreenLs(ss) ==
    { IF ss = <<>> THEN CompletedProcess(1, NoSockets, <<>>)
                   ELSE CompletedProcess(0, ListingStdout(ss), <<>>),
      CompletedProcess(2, <<>>, ErrText) }

\* a session named name is in the table
Registered(ss, name) == \E i \in 1..Len(ss) : ss[i].name = name

\* what run() of a create or stuff command returns with exit code rc
CommandResult(rc) == CompletedProcess(rc, <<>>, IF rc = 0 THEN <<>> ELSE ErrText)

(***************************************************************************)
(* The caller: one synchronous thread calling the controller               *)
(***************************************************************************)
StopPollInterval == 1
\* stop_server passing the poll interval where the timeout goes
StopTimeout_AsPollInterval == StopPollInterval

StopTimeout == 10

Workdir == <<"/", "w">>
Entrypoint == <<"r", "u", "n">>
StopText == <<"s", "t", "o", "p">>
SayText == <<"s", "a", "y">>

\* no command-line process has been started
NoCli == <<>>

\* an empty directory
NoFiles == {}

NoOp == [kind |-> "none", name |-> <<>>, poll_interval |-> 0, timeout |-> None]

Operation(kind, name) == [kind |-> kind, name |-> name, poll_interval |-> 0, timeout |-> None]

Call(fn, name, args, result) == [fn |-> fn, name |-> name, args |-> args, result |-> result]

Init ==
    /\ sessions = <<>>
    /\ pc = "idle"
    /\ op = NoOp
    /\ ret = None
    /\ calls = <<>>
    /\ elapsed = 0
    /\ sleeps = 0
    /\ lag = 0
    /\ present = None
    /\ proc = None
    /\ listed = None
    /\ cli = NoCli
    /\ files = NoFiles

\* ScreenPlatformService.is_server_running(n)
IsServerRunning(n) ==
    /\ pc = "idle"
    /\ \E result \in ScreenLs(sessions) :
         LET local_name == to_local_name(n)
             found == exists(result, local_name)
         IN /\ op' = Operation("is_server_running", n)
            /\ calls' = <<Call("exists", local_name, <<>>, Some(found))>>
            /\ proc' = Some(result)
            /\ listed' = Some(list(result, TRUE))
            /\ ret' = Some(found)
    /\ pc' = "done"
    /\ UNCHANGED <<sessions, elapsed, sleeps, lag, present>>
    /\ UNCHANGED cli
    /\ UNCHANGED files

\* ScreenPlatformService.start_server(n, Workdir, Entrypoint)
StartServer(n) ==
    /\ pc = "idle"
    /\ \E rc \in ExitCodes :
         LET local_name == to_local_name(n)
             cmd == <<"c", "d", " ">> \o Workdir \o <<" ", "&", "&", " ">> \o Entrypoint
             r == create(CommandResult(rc), local_name, cmd)
         IN /\ rc = 0 => Len(sessions) < MaxSessions
            /\ sessions' = IF rc = 0
                           THEN Append(sessions, [pid |-> NewPid(sessions),
                                                  name |-> _normalize_name(local_name)])
                           ELSE sessions
            /\ op' = Operation("start_server", n)
            /\ calls' = <<Call("create", local_name, <<cmd>>, Some(r))>>
            /\ ret' = Some(r)
    /\ pc' = "done"
    /\ UNCHANGED <<elapsed, sleeps, lag, present, proc, listed>>
    /\ UNCHANGED cli
    /\ UNCHANGED files

\* run_in_server handing the logical name to the backend
RunInServer_Unprefixed(n) ==
    /\ pc = "idle"
    /\ \E rc \in ExitCodes :
         LET r == stuff(CommandResult(rc), n, SayText)
         IN /\ rc = 0 => Registered(sessions, _normalize_name(n))
            /\ op' = Operation("run_in_server", n)
            /\ calls' = <<Call("stuff", n, <<SayText>>, Some(r))>>
            /\ ret' = Some(r)
    /\ pc' = "done"
    /\ UNCHANGED <<sessions, elapsed, sleeps, lag, present, proc, listed>>
    /\ UNCHANGED cli
    /\ UNCHANGED files

\* ScreenPlatformService.run_in_server(n, SayText); the command finds the
\* session only if one of that name is in the table
RunInServer(n) ==
    /\ pc = "idle"
    /\ \E rc \in ExitCodes :
         LET local_name == to_local_name(n)
             r == stuff(CommandResult(rc), local_name, SayText)
         IN /\ rc = 0 => Registered(sessions, _normalize_name(local_name))
            /\ op' = Operation("run_in_server", n)
            /\ calls' = <<Call("stuff", local_name, <<SayText>>, Some(r))>>
            /\ ret' = Some(r)
    /\ pc' = "done"
    /\ UNCHANGED <<sessions, elapsed, sleeps, lag, present, proc, listed>>
    /\ UNCHANGED cli
    /\ UNCHANGED files

\* ScreenPlatformService.list_running()
ListRunning ==
    /\ pc = "idle"
    /\ \E result \in ScreenLs(sessions) :
         LET r == list(result, FALSE)
         IN /\ op' = Operation("list_running", <<>>)
            /\ calls' = <<Call("list", <<>>, <<>>, Some(r))>>
            /\ proc' = Some(result)
            /\ listed' = Some(r)
            /\ ret' = Some(list_running(r))
    /\ pc' = "done"
    /\ UNCHANGED <<sessions, elapsed, sleeps, lag, present>>
    /\ UNCHANGED cli
    /\ UNCHANGED files

\* the pass of wait_term with the deadline tested before the existence poll
wait_term_pass_DeadlineFirst(result, name, timeout, now) ==
    LET normalized == _normalize_name(name)
    IN IF DeadlinePassed(timeout, now) THEN Some(TimeoutFailure(name, timeout))
       ELSE IF ~exists(result, normalized) THEN Some(success(None))
       ELSE None

\* one pass of the loop of LinuxScreenService.wait_term, up to time.sleep:
\* the Result it returns, or None when it goes on to sleep
wait_term_pass(result, name, timeout, now) ==
    LET normalized == _normalize_name(name)
    IN IF ~exists(result, normalized) THEN Some(success(None))
       ELSE IF DeadlinePassed(timeout, now) THEN Some(TimeoutFailure(name, timeout))
       ELSE None

\* stop_server going on to wait_term whatever stuff returned
stop_after_stuff_Ignore(stuff_result) == None

\* ScreenPlatformService.stop_server: what follows the stuff step
stop_after_stuff(stuff_result) ==
    IF is_error(stuff_result) THEN Some(stuff_result) ELSE None

\* stop_server calling wait_term without its timeout argument
StopServer_NoTimeout(n) ==
    /\ pc = "idle"
    /\ \E rc \in ExitCodes :
         LET local_name == to_local_name(n)
             stuff_result == stuff(CommandResult(rc), local_name, StopText)
             early == stop_after_stuff(stuff_result)
             stuffed == Call("stuff", local_name, <<StopText>>, Some(stuff_result))
         IN /\ rc = 0 => Registered(sessions, _normalize_name(local_name))
            /\ op' = [kind |-> "stop_server", name |-> n,
                      poll_interval |-> StopPollInterval, timeout |-> None]
            /\ IF early # None
               THEN /\ calls' = <<stuffed>>
                    /\ ret' = early
                    /\ pc' = "done"
               ELSE /\ calls' = <<stuffed,
                                  Call("wait_term", local_name,
                                       <<StopPollInterval>>, None)>>
                    /\ ret' = None
                    /\ pc' = "wait_poll"
    /\ elapsed' = 0
    /\ sleeps' = 0
    /\ lag' = 0
    /\ present' = None
    /\ UNCHANGED <<sessions, proc, listed>>
    /\ UNCHANGED cli
    /\ UNCHANGED files

\* ScreenPlatformService.stop_server(n), up to the first poll of wait_term
StopServer(n) ==
    /\ pc = "idle"
    /\ \E rc \in ExitCodes :
         LET local_name == to_local_name(n)
             stuff_result == stuff(CommandResult(rc), local_name, StopText)
             early == stop_after_stuff(stuff_result)
             stuffed == Call("stuff", local_name, <<StopText>>, Some(stuff_result))
         IN /\ rc = 0 => Registered(sessions, _normalize_name(local_name))
            /\ op' = [kind |-> "stop_server", name |-> n,
                      poll_interval |-> StopPollInterval, timeout |-> Some(StopTimeout)]
            /\ IF early # None
               THEN /\ calls' = <<stuffed>>
                    /\ ret' = early
                    /\ pc' = "done"
               ELSE /\ calls' = <<stuffed,
                                  Call("wait_term", local_name,
                                       <<StopPollInterval, StopTimeout>>, None)>>
                    /\ ret' = None
                    /\ pc' = "wait_poll"
    /\ elapsed' = 0
    /\ sleeps' = 0
    /\ lag' = 0
    /\ present' = None
    /\ UNCHANGED <<sessions, proc, listed>>
    /\ UNCHANGED cli
    /\ UNCHANGED files

\* a direct call of LinuxScreenService.wait_term(name, p, t)
WaitTerm(name, p, t) ==
    /\ pc = "idle"
    /\ op' = [kind |-> "wait_term", name |-> name, poll_interval |-> p, timeout |-> t]
    /\ calls' = <<>>
    /\ ret' = None
    /\ pc' = "wait_poll"
    /\ elapsed' = 0
    /\ sleeps' = 0
    /\ lag' = 0
    /\ present' = None
    /\ UNCHANGED <<sessions, proc, listed>>
    /\ UNCHANGED cli
    /\ UNCHANGED files

\* the session name the wait_term in progress was called with
WaitedName == IF op.kind = "stop_server" THEN to_local_name(op.name) ELSE op.name

\* wait_term: the existence poll and the deadline test of one pass; the
\* listing command takes d ticks
WaitPoll(d) ==
    /\ pc = "wait_poll"
    /\ \E result \in ScreenLs(sessions) :
         LET now == elapsed + d
             r == wait_term_pass(result, WaitedName, op.timeout, now)
         IN /\ elapsed' = now
            /\ lag' = lag + d
            /\ present' = Some(exists(result, _normalize_name(WaitedName)))
            /\ IF r = None
               THEN /\ pc' = "wait_sleep"
                    /\ UNCHANGED <<ret, calls, proc, listed>>
               ELSE /\ pc' = "done"
                    /\ proc' = Some(result)
                    /\ listed' = Some(list(result, TRUE))
                    /\ ret' = r
                    /\ calls' = IF op.kind = "stop_server"
                                THEN [calls EXCEPT ![2].result = r]
                                ELSE calls
    /\ UNCHANGED <<sessions, op, sleeps>>
    /\ UNCHANGED cli
    /\ UNCHANGED files

\* wait_term: time.sleep(poll_interval), which oversleeps by o ticks
WaitSleep(o) ==
    /\ pc = "wait_sleep"
    /\ (op.timeout = None \/ op.poll_interval = 0) => sleeps < MaxSleeps
    /\ elapsed' = elapsed + op.poll_interval + o
    /\ lag' = o
    /\ UNCHANGED present
    /\ sleeps' = sleeps + 1
    /\ pc' = "wait_poll"
    /\ UNCHANGED <<sessions, op, ret, calls, proc, listed>>
    /\ UNCHANGED cli
    /\ UNCHANGED files

\* the caller takes the returned value and is ready for the next call
Ack ==
    /\ pc = "done"
    /\ pc' = "idle"
    /\ op' = NoOp
    /\ ret' = None
    /\ calls' = <<>>
    /\ elapsed' = 0
    /\ sleeps' = 0
    /\ lag' = 0
    /\ present' = None
    /\ proc' = None
    /\ listed' = None
    /\ UNCHANGED sessions
    /\ UNCHANGED cli
    /\ UNCHANGED files

\* a session's process ends (the server stopped or died)
SessionExit(i) ==
    /\ pc # "done"
    /\ i \in 1..Len(sessions)
    /\ sessions' = RemoveAt(sessions, i)
    /\ UNCHANGED <<pc, op, ret, calls, elapsed, sleeps, lag, present, proc, listed>>
    /\ UNCHANGED cli
    /\ UNCHANGED files

\* somebody else starts a session of their own
ForeignCreate(name) ==
    /\ pc # "done"
    /\ Len(sessions) < MaxSessions
    /\ sessions' = Append(sessions, [pid |-> NewPid(sessions), name |-> name])
    /\ UNCHANGED <<pc, op, ret, calls, elapsed, sleeps, lag, present, proc, listed>>
    /\ UNCHANGED cli
    /\ UNCHANGED files

(***************************************************************************)
(* Spec: the lifecycle of the servers through the controller.  The         *)
(* multiplexer's commands and time.sleep take their nominal time.          *)
(***************************************************************************)
Next ==
    \/ \E n \in Names : IsServerRunning(n)
    \/ \E n \in Names : StartServer(n)
    \/ \E n \in Names : RunInServer(n)
    \/ ListRunning
    \/ \E n \in Names : StopServer(n)
    \/ WaitPoll(0)
    \/ WaitSleep(0)
    \/ Ack
    \/ \E i \in 1..MaxSessions : SessionExit(i)
    \/ \E f \in ForeignNames : ForeignCreate(f)

Spec == Init /\ [][Next]_vars

(***************************************************************************)
(* SpecWait: LinuxScreenService.wait_term called directly, with any poll   *)
(* interval and timeout, against one session that may end at any moment;  *)
(* listing commands take up to MaxPollCost ticks and time.sleep returns up *)
(* to MaxOversleep ticks late.                                             *)
(***************************************************************************)
Timeouts == {None} \cup {Some(t) : t \in 0..MaxTimeout}

InitWait ==
    /\ sessions \in {<<>>} \cup
                    { <<[pid |-> PidChars[1], name |-> _normalize_name(to_local_name(n))]>> :
                        n \in Names }
    /\ pc = "idle"
    /\ op = NoOp
    /\ ret = None
    /\ calls = <<>>
    /\ elapsed = 0
    /\ sleeps = 0
    /\ lag = 0
    /\ present = None
    /\ proc = None
    /\ listed = None
    /\ cli = NoCli
    /\ files = NoFiles

NextWait ==
    \/ \E n \in Names, p \in 0..MaxPollInterval, t \in Timeouts :
          WaitTerm(to_local_name(n), p, t)
    \/ \E d \in 0..MaxPollCost : WaitPoll(d)
    \/ \E o \in 0..MaxOversleep : WaitSleep(o)
    \/ Ack
    \/ \E i \in 1..MaxSessions : SessionExit(i)

SpecWait == InitWait /\ [][NextWait]_vars

(***************************************************************************)
(* SpecList: LinuxScreenService.list applied to any CompletedProcess of    *)
(* the listing command: any exit code, any stdout of up to MaxStdout       *)
(* characters.                                                             *)
(***************************************************************************)
StdoutChars == {"\n", " ", ".", "m"}

Stdouts == UNION { [1..k -> StdoutChars] : k \in 0..MaxStdout }

ListExitCodes == ExitCodes \cup {-9}

InitList ==
    /\ proc \in { Some(CompletedProcess(rc, out, IF rc = 0 THEN <<>> ELSE ErrText)) :
                    rc \in ListExitCodes, out \in Stdouts }
    /\ sessions = <<>>
    /\ pc = "idle"
    /\ op = NoOp
    /\ ret = None
    /\ calls = <<>>
    /\ elapsed = 0
    /\ sleeps = 0
    /\ lag = 0
    /\ present = None
    /\ listed = None
    /\ cli = NoCli
    /\ files = NoFiles

\* a call of LinuxScreenService.list(trim_id = trim) whose run() returns proc
List(trim) ==
    /\ pc = "idle"
    /\ proc # None
    /\ op' = [kind |-> "list", name |-> <<>>, poll_interval |-> 0,
              timeout |-> None, trim_id |-> trim]
    /\ listed' = Some(list(proc[1], trim))
    /\ ret' = listed'
    /\ pc' = "done"
    /\ UNCHANGED <<sessions, calls, elapsed, sleeps, lag, present, proc>>
    /\ UNCHANGED cli
    /\ UNCHANGED files

NextList == \E trim \in BOOLEAN : List(trim)

SpecList == InitList /\ [][NextList]_vars

(***************************************************************************)
(* Claims                                                                  *)
(***************************************************************************)
ListReturned == pc = "done" /\ op.kind = "list"

\* C4: whenever the listing command exits with code 1, list returns Success
\* with the empty list, whatever its stdout holds.
C4_ExitOneYieldsEmptyList ==
    (ListReturned /\ proc[1].returncode = 1) => listed[1] = success(Some(<<>>))

\* C5: for every exit code other than 0 and 1, list returns a Failure of kind
\* COMMAND_FAILED that carries the exit code and the captured stdout and
\* stderr, and no session list.
C5_OtherExitCodesFail ==
    (ListReturned /\ proc[1].returncode \notin {0, 1}) =>
        /\ is_error(listed[1])
        /\ listed[1].value = None
        /\ listed[1].error[1].error_type = "COMMAND_FAILED"
        /\ listed[1].error[1].return_code = Some(proc[1].returncode)
        /\ listed[1].error[1].stdout = Some(proc[1].stdout)
        /\ listed[1].error[1].stderr = Some(proc[1].stderr)

\* C5 witness: list has returned for a command that failed although its
\* stdout holds a session line between a first and a last line.
C5_Witness ==
    /\ ListReturned
    /\ proc[1].returncode \notin {0, 1}
    /\ Len(SplitLines(proc[1].stdout)) >= 3
    /\ is_error(listed[1])

StopReturned == pc = "done" /\ op.kind = "stop_server"

RunningReturned == pc = "done" /\ op.kind = "is_server_running"

ListRunningReturned == pc = "done" /\ op.kind = "list_running"

WaitReturned == pc = "done" /\ op.kind = "wait_term"

\* the name the backend gives the session of logical name n
SessionName(n) == _normalize_name(to_local_name(n))

\* C1: if the stuff step of stop_server returns a Failure, stop_server
\* returns that same Failure and wait_term is not invoked at all.
C1_StuffFailureSkipsWait ==
    (op.kind = "stop_server" /\ is_error(calls[1].result[1])) =>
        /\ pc = "done"
        /\ ret = calls[1].result
        /\ \A i \in 1..Len(calls) : calls[i].fn # "wait_term"
        /\ sleeps = 0 /\ present = None

\* C1 witness: stop_server has returned after a failed stuff step.
C1_Witness ==
    /\ StopReturned
    /\ calls[1].fn = "stuff"
    /\ is_error(calls[1].result[1])
    /\ is_error(ret[1])

\* C2: whenever stop_server returns Success, the session of that name is
\* absent from the session table, also when a listing command failed during
\* the wait.
C2_StopSuccessMeansGone ==
    (StopReturned /\ is_success(ret[1])) => ~Registered(sessions, SessionName(op.name))

\* C3: while the session start_server created for n is registered (and the
\* listing command succeeds), is_server_running(n) returns true, the names
\* with '.', upper case or spaces included.
C3_StartedServerIsRunning ==
    (/\ RunningReturned
     /\ Registered(sessions, SessionName(op.name))
     /\ is_success(listed[1])) => ret[1] = TRUE

\* the descriptors C6 describes for the raw sessions ss: one per session whose
\* trimmed name starts with the prefix and the dash, in order
RECURSIVE DashPrefixed(_)
DashPrefixed(ss) ==
    IF ss = <<>> THEN <<>>
    ELSE (IF StartsWith(trim_id(Head(ss)), Prefix \o <<"-">>)
          THEN <<HostDescriptor(SubSeq(trim_id(Head(ss)), Len(Prefix) + 2,
                                       Len(trim_id(Head(ss)))),
                                ScreenAt \o Head(ss))>>
          ELSE <<>>) \o DashPrefixed(Tail(ss))

\* C6: given a successful listing, list_running returns exactly one
\* HostDescriptor per raw session whose trimmed name starts with "mcm-", in
\* backend order, and omits every other session.
C6_ListRunningKeepsDashPrefixed ==
    (ListRunningReturned /\ is_success(listed[1])) =>
        ret[1] = success(Some(DashPrefixed(listed[1].value[1])))

\* the backend calls of the operation in progress that returned a Failure
FailedCalls == { i \in 1..Len(calls) : calls[i].result # None /\ is_error(calls[i].result[1]) }

\* C9: a controller operation returns the first Failure a backend call of it
\* returned, unchanged, and makes no backend call after it.
C9_FirstFailureForwarded ==
    (op.kind \in {"start_server", "run_in_server", "stop_server", "list_running"}) =>
        /\ \A i \in FailedCalls :
              /\ i = Len(calls)
              /\ pc = "done"
              /\ ret = calls[i].result
        /\ (pc = "done" /\ is_success(ret[1])) => FailedCalls = {}

\* C9 witness: stop_server has returned the Timeout failure of wait_term,
\* its second backend call.
C9_Witness ==
    /\ StopReturned
    /\ Len(calls) = 2
    /\ is_success(calls[1].result[1])
    /\ calls[2].fn = "wait_term"
    /\ is_error(calls[2].result[1])
    /\ ret[1].error[1].error_type = "TIMEOUT"

\* C10: when the list() call behind is_server_running fails, the failure is
\* propagated: the answer is not `false` (here: for a server whose session
\* is registered).
C10_ListFailureNotReportedAsStopped ==
    (/\ RunningReturned
     /\ is_error(listed[1])
     /\ Registered(sessions, SessionName(op.name))) => ret[1] # FALSE

\* C7 as claimed: wait_term returns Timeout only when the elapsed time is
\* greater than timeout and at most timeout plus one poll interval (here: for
\* a poll interval greater than 0).
C7_TimeoutWithinOnePollInterval ==
    (WaitReturned /\ is_error(ret[1]) /\ op.poll_interval > 0) =>
        /\ elapsed > op.timeout[1]
        /\ elapsed <= op.timeout[1] + op.poll_interval

\* C7: while every poll reports the session present, wait_term keeps waiting
\* up to the deadline and returns nothing but Failure(TIMEOUT); it returns it
\* only when the elapsed time is greater than timeout and at most timeout plus
\* one poll interval plus what the last sleep overslept and the last poll took.
C7_TimeoutAfterDeadline ==
    (op.kind = "wait_term") =>
        /\ (pc = "done" /\ is_error(ret[1])) =>
              /\ ret[1].error[1].error_type = "TIMEOUT"
              /\ op.timeout # None
              /\ present = Some(TRUE)
              /\ elapsed > op.timeout[1]
              /\ elapsed <= op.timeout[1] + op.poll_interval + lag
        /\ (pc = "done" /\ present = Some(TRUE)) => is_error(ret[1])
        /\ (pc = "wait_sleep" /\ op.timeout # None) => elapsed <= op.timeout[1]

\* C7 witness: wait_term has returned Timeout after sleeping, later than one
\* poll interval after the deadline.
C7_Witness ==
    /\ WaitReturned
    /\ is_error(ret[1])
    /\ sleeps >= 1
    /\ elapsed > op.timeout[1] + op.poll_interval

\* C8: wait_term returns Success at the first poll that reports the session
\* absent, whatever the poll interval and the timeout; when that is the first
\* poll it has not slept.
C8_GoneAtPollReturnsSuccess ==
    (op.kind = "wait_term") =>
        /\ present = Some(FALSE) => pc = "done" /\ ret = Some(success(None))
        /\ pc = "wait_sleep" => present = Some(TRUE)
        /\ (pc = "done" /\ is_success(ret[1])) => present = Some(FALSE)
        /\ (pc = "wait_poll" /\ sleeps = 0) => present = None

\* C8 witness: the first poll reported the session absent after the deadline
\* had passed, and wait_term returned Success without sleeping.
C8_Witness ==
    /\ WaitReturned
    /\ sleeps = 0
    /\ present = Some(FALSE)
    /\ DeadlinePassed(op.timeout, elapsed)
    /\ is_success(ret[1])

(***************************************************************************)
(* SpecNames: the naming functions applied to any name of up to MaxName    *)
(* characters: the namespacing round trip of ScreenPlatformService and     *)
(* ScreenService.trim_id.  calls logs the applications, in order.          *)
(***************************************************************************)
NameChars == {"a", "B", ".", "-", " "}

NameStrings == UNION { [1..k -> NameChars] : k \in 0..MaxName }

\* the caller holds a name, any of NameStrings
InitNames ==
    /\ op \in { Operation("name", n) : n \in NameStrings }
    /\ sessions = <<>>
    /\ pc = "idle"
    /\ ret = None
    /\ calls = <<>>
    /\ elapsed = 0
    /\ sleeps = 0
    /\ lag = 0
    /\ present = None
    /\ proc = None
    /\ listed = None
    /\ cli = NoCli
    /\ files = NoFiles

\* __to_local_name(op.name), the first application of the round trip
Namespace ==
    /\ pc = "idle"
    /\ op' = [op EXCEPT !.kind = "roundtrip"]
    /\ calls' = <<Call("to_local_name", op.name, <<>>, Some(to_local_name(op.name)))>>
    /\ ret' = Some(to_local_name(op.name))
    /\ pc' = "namespaced"
    /\ UNCHANGED <<sessions, elapsed, sleeps, lag, present, proc, listed>>
    /\ UNCHANGED cli
    /\ UNCHANGED files

\* __strip_local_name applied to what __to_local_name returned
StripName ==
    /\ pc = "namespaced"
    /\ calls' = Append(calls, Call("strip_local_name", ret[1], <<>>,
                                   Some(strip_local_name(ret[1]))))
    /\ ret' = Some(strip_local_name(ret[1]))
    /\ pc' = "stripped"
    /\ UNCHANGED <<sessions, op, elapsed, sleeps, lag, present, proc, listed>>
    /\ UNCHANGED cli
    /\ UNCHANGED files

\* __to_local_name applied to what __strip_local_name returned
Renamespace ==
    /\ pc = "stripped"
    /\ calls' = Append(calls, Call("to_local_name", ret[1], <<>>,
                                   Some(to_local_name(ret[1]))))
    /\ ret' = Some(to_local_name(ret[1]))
    /\ pc' = "done"
    /\ UNCHANGED <<sessions, op, elapsed, sleeps, lag, present, proc, listed>>
    /\ UNCHANGED cli
    /\ UNCHANGED files

\* ScreenService.trim_id(op.name)
TrimId ==
    /\ pc = "idle"
    /\ op' = [op EXCEPT !.kind = "trim_id"]
    /\ calls' = <<>>
    /\ ret' = Some(trim_id(op.name))
    /\ pc' = "done"
    /\ UNCHANGED <<sessions, elapsed, sleeps, lag, present, proc, listed>>
    /\ UNCHANGED cli
    /\ UNCHANGED files

NextNames ==
    \/ Namespace
    \/ StripName
    \/ Renamespace
    \/ TrimId

SpecNames == InitNames /\ [][NextNames]_vars

\* C11: with namespace(n) = "mcm-" + n and strip dropping len(prefix) + 1
\* characters, strip(namespace(n)) = n and
\* namespace(strip(namespace(n))) = namespace(n), for every name n.
C11_NamespaceRoundTrip ==
    (op.kind = "roundtrip") =>
        /\ calls[1].result = Some(<<"m", "c", "m", "-">> \o op.name)
        /\ Len(calls) >= 2 => calls[2].result = Some(op.name)
        /\ Len(calls) >= 3 => calls[3].result = calls[1].result

\* C11 witness: the round trip is complete for a name that itself holds a
\* dash and a dot.
C11_Witness ==
    /\ pc = "done"
    /\ op.kind = "roundtrip"
    /\ Len(calls) = 3
    /\ Contains(op.name, "-")
    /\ Contains(op.name, ".")
    /\ ret = calls[1].result

\* the part of token after its first "."; token itself when it has none
RECURSIVE AfterFirstDot(_, _)
AfterFirstDot(token, whole) ==
    IF token = <<>> THEN whole
    ELSE IF Head(token) = "." THEN Tail(token)
    ELSE AfterFirstDot(Tail(token), whole)

\* C13: trim_id returns the part of the token after the first '.', later
\* dots kept, and the whole token when it holds no '.'.
C13_TrimIdCutsAtFirstDot ==
    (/\ pc = "done"
     /\ op.kind = "trim_id"
     /\ op.name # <<>>
     /\ Head(op.name) = "a"
     /\ op.name[Len(op.name)] # "."
     /\ \A i \in 1..(Len(op.name) - 1) : ~(op.name[i] = "." /\ op.name[i + 1] = "."))
    => ret[1] = AfterFirstDot(op.name, op.name)

\* "mcm-" + n, written out
McmDash(n) == <<"m", "c", "m", "-">> \o n

\* C12: a stop_server whose stuff succeeded made exactly one stuff call on
\* "mcm-" + name with the text "stop", then exactly one wait_term call on the
\* same name with poll interval 1 and timeout 10, and returned wait_term's
\* result: Success, or a TIMEOUT failure.
C12_StopIsStuffThenWaitTerm ==
    (StopReturned /\ is_success(calls[1].result[1])) =>
        /\ Len(calls) = 2
        /\ calls[1].fn = "stuff"
        /\ calls[1].name = McmDash(op.name)
        /\ calls[1].args = << <<"s", "t", "o", "p">> >>
        /\ calls[2].fn = "wait_term"
        /\ calls[2].name = McmDash(op.name)
        /\ calls[2].args = <<1, 10>>
        /\ ret = calls[2].result
        /\ \/ ret[1] = success(None)
           \/ /\ is_error(ret[1])
              /\ ret[1].error[1].error_type = "TIMEOUT"

\* C12 witness: a stop_server whose stuff succeeded returned the TIMEOUT
\* failure of wait_term.
C12_Witness ==
    /\ StopReturned
    /\ Len(calls) = 2
    /\ is_success(calls[1].result[1])
    /\ is_error(ret[1])
    /\ sleeps > 1

StartReturned == pc = "done" /\ op.kind = "start_server"

\* the sessions of the table named name
SessionsNamed(name) == { i \in 1..Len(sessions) : sessions[i].name = name }

\* C16: start_server made exactly one backend call, create, with session name
\* "mcm-" + name and command "cd <workdir> && <entrypoint>", and returned that
\* call's result.
C16_StartIsOneCreate ==
    StartReturned =>
        /\ Len(calls) = 1
        /\ calls[1].fn = "create"
        /\ calls[1].name = McmDash(op.name)
        /\ calls[1].args = << <<"c", "d", " ">> \o Workdir
                              \o <<" ", "&", "&", " ">> \o Entrypoint >>
        /\ ret = calls[1].result

\* C16 witness: start_server created a session although one of that name was
\* already there.
C16_Witness ==
    /\ StartReturned
    /\ is_success(ret[1])
    /\ Cardinality(SessionsNamed(SessionName(op.name))) = 2

RunInServerReturned == pc = "done" /\ op.kind = "run_in_server"

\* C17: run_in_server makes exactly one backend call, stuff, on "mcm-" + name
\* with the given command, returns that call's result, and leaves the session
\* table as it was.
C17_RunInServerIsOneStuff ==
    [][(pc = "idle" /\ op'.kind = "run_in_server") =>
          /\ sessions' = sessions
          /\ Len(calls') = 1
          /\ calls'[1].fn = "stuff"
          /\ calls'[1].name = McmDash(op'.name)
          /\ calls'[1].args = << SayText >>
          /\ ret' = calls'[1].result]_vars

\* C17 witness: run_in_server returned Success with the session in the table.
C17_Witness ==
    /\ RunInServerReturned
    /\ is_success(ret[1])
    /\ Registered(sessions, SessionName(op.name))

\* a line of nothing but whitespace
IsBlank(line) == \A i \in 1..Len(line) : line[i] \in Whitespace

\* the first whitespace-delimited field of a line that is not blank
FirstField(line) ==
    LET first == CHOOSE i \in 1..Len(line) :
                     /\ line[i] \notin Whitespace
                     /\ \A j \in 1..(i - 1) : line[j] \in Whitespace
        last == CHOOSE e \in first..Len(line) :
                    /\ \A j \in first..e : line[j] \notin Whitespace
                    /\ e < Len(line) => line[e + 1] \in Whitespace
    IN SubSeq(line, first, last)

\* the first field of every non-blank line of stdout other than the first and
\* the last line, in output order
MiddleFields(stdout) ==
    LET lines == SplitLines(stdout)
        kept == { i \in 2..(Len(lines) - 1) : ~IsBlank(lines[i]) }
        nth(k) == CHOOSE i \in kept : Cardinality({ j \in kept : j <= i }) = k
    IN [k \in 1..Cardinality(kept) |-> FirstField(lines[nth(k)])]

BackendNames == { to_local_name(n) : n \in Names }

BackendCommands == {StopText, SayText}

\* what the external command may print
BackendOutputs == { <<>>, <<"o", "u", "t">> }

\* what run() may return: exit code 0, or another one with a stderr text
BackendResults ==
    { CompletedProcess(rc, out, IF rc = 0 THEN <<>> ELSE ErrText) :
        rc \in ListExitCodes, out \in BackendOutputs }

BackendOperation(kind, name, command) ==
    [kind |-> kind, name |-> name, poll_interval |-> 0, timeout |-> None,
     command |-> command]

\* LinuxScreenService.create(name, command)
Create(name, command) ==
    /\ pc = "idle"
    /\ \E result \in BackendResults :
         /\ result.returncode = 0 => Len(sessions) < MaxSessions
         /\ sessions' = IF result.returncode = 0
                        THEN Append(sessions, [pid |-> NewPid(sessions),
                                               name |-> _normalize_name(name)])
                        ELSE sessions
         /\ op' = BackendOperation("create", name, command)
         /\ calls' = <<Call("run", name, create_args(name, command), Some(result))>>
         /\ proc' = Some(result)
         /\ ret' = Some(create(result, name, command))
    /\ pc' = "done"
    /\ UNCHANGED <<elapsed, sleeps, lag, present, listed>>
    /\ UNCHANGED cli
    /\ UNCHANGED files

\* LinuxScreenService.stuff(name, command); the command finds the session
\* only if one of that name is in the table
Stuff(name, command) ==
    /\ pc = "idle"
    /\ \E result \in BackendResults :
         /\ result.returncode = 0 => Registered(sessions, _normalize_name(name))
         /\ op' = BackendOperation("stuff", name, command)
         /\ calls' = <<Call("run", name, stuff_args(name, command), Some(result))>>
         /\ proc' = Some(result)
         /\ ret' = Some(stuff(result, name, command))
    /\ pc' = "done"
    /\ UNCHANGED <<sessions, elapsed, sleeps, lag, present, listed>>
    /\ UNCHANGED cli
    /\ UNCHANGED files

NextBackend ==
    \/ \E name \in BackendNames, command \in BackendCommands : Create(name, command)
    \/ \E name \in BackendNames, command \in BackendCommands : Stuff(name, command)
    \/ Ack
    \/ \E i \in 1..MaxSessions : SessionExit(i)

SpecBackend == Init /\ [][NextBackend]_vars

BackendReturned == pc = "done" /\ op.kind \in {"create", "stuff"}

\* C15: create and stuff return Success(None) exactly when the external
\* command exits with code 0; for every other exit code they return a
\* COMMAND_FAILED failure carrying that exit code and the captured stdout and
\* stderr.  stuff hands the session the command followed by one newline.
C15_ExitCodeDecidesResult ==
    BackendReturned =>
        /\ (ret[1] = success(None)) <=> (proc[1].returncode = 0)
        /\ proc[1].returncode # 0 =>
              /\ ret[1].value = None
              /\ ret[1].error # None
              /\ ret[1].error[1].error_type = "COMMAND_FAILED"
              /\ ret[1].error[1].return_code = Some(proc[1].returncode)
              /\ ret[1].error[1].stdout = Some(proc[1].stdout)
              /\ ret[1].error[1].stderr = Some(proc[1].stderr)
        /\ op.kind = "stuff" =>
              /\ Len(calls) = 1
              /\ calls[1].args[6] = op.command \o <<"\n">>

\* C15 witness: stuff failed on a command killed by a signal, which had
\* printed something.
C15_Witness ==
    /\ BackendReturned
    /\ op.kind = "stuff"
    /\ proc[1].returncode < 0
    /\ proc[1].stdout # <<>>
    /\ is_error(ret[1])

\* a default no operation returns
UnwrapDefault == Some(<<"d">>)

\* what C20 says of one Result
ResultWellFormed(r) ==
    /\ is_success(r) <=> ~is_error(r)
    /\ is_error(r) =>
          /\ r.value = None
          /\ r.error # None
          /\ unwrap(r).raised # None
          /\ unwrap(r).returned = None
          /\ unwrap_or(r, UnwrapDefault) = UnwrapDefault
    /\ is_success(r) =>
          /\ r.error = None
          /\ unwrap(r).raised = None
          /\ unwrap(r).returned = Some(r.value)
          /\ unwrap_or(r, UnwrapDefault) = r.value

\* C20: for every Result an operation produced (the one the controller
\* returned and the ones the backend returned to it), is_success() is the
\* negation of is_error(); a failure has value None and an error; a success
\* has error None; unwrap() returns the value on success and raises on
\* failure; unwrap_or(d) returns the value on success and d on failure.
C20_ResultWellFormed ==
    /\ (pc = "done" /\ op.kind \in {"start_server", "run_in_server",
                                    "stop_server", "list_running"})
          => ResultWellFormed(ret[1])
    /\ \A j \in 1..Len(calls) :
          (/\ calls[j].fn \in {"list", "create", "stuff", "wait_term"}
           /\ calls[j].result # None) => ResultWellFormed(calls[j].result[1])
    /\ listed # None => ResultWellFormed(listed[1])

\* C20 witness: stop_server returned a failure after a backend call that
\* returned Success(None).
C20_Witness ==
    /\ StopReturned
    /\ Len(calls) = 2
    /\ calls[1].result[1] = success(None)
    /\ is_error(ret[1])
    /\ unwrap(ret[1]).raised = Some("ValueError")
    /\ unwrap(calls[1].result[1]).returned = Some(None)

(***************************************************************************)
(* SpecCli: the commands start, stop and exec of cli/server.py, run by     *)
(* processes that share the multiplexer.  A process takes one step per     *)
(* external command it runs.  Servers also come and go outside these       *)
(* processes.                                                              *)
(***************************************************************************)
Callers == {"p1", "p2"}

CliCommands == {"start", "stop", "exec"}

CliNames == { <<"a">>, <<"a", " ", "b">> }

\* a Python value and its class
PyValue(class, value) == [class |-> class, value |-> value]

\* the methods the values of a class have
HasMethod(class, method) ==
    /\ class = "Result"
    /\ method \in {"is_success", "is_error", "unwrap", "unwrap_or"}

\* what is_server_running returns for a session found or not: a bool
is_server_running(found) == PyValue("bool", found)

\* require_running(name) given what is_server_running returned: the exception
\* it raises, or "ok"
require_running(result) ==
    IF ~HasMethod(result.class, "is_error") THEN "AttributeError"
    ELSE IF is_error(result.value) THEN "Abort"
    ELSE IF unwrap(result.value).returned = Some(FALSE) THEN "BadParameter"
    ELSE "ok"

\* require_stopped(name, message) given what is_server_running returned
require_stopped(result) ==
    IF ~HasMethod(result.class, "is_error") THEN "AttributeError"
    ELSE IF is_error(result.value) THEN "Abort"
    ELSE IF unwrap(result.value).returned = Some(TRUE) THEN "BadParameter"
    ELSE "ok"

IdleCli == [pc |-> "idle", command |-> "none", name |-> <<>>,
            observed |-> None, outcome |-> "none", calls |-> <<>>]

InitCli ==
    /\ sessions = <<>>
    /\ pc = "idle"
    /\ op = NoOp
    /\ ret = None
    /\ calls = <<>>
    /\ elapsed = 0
    /\ sleeps = 0
    /\ lag = 0
    /\ present = None
    /\ proc = None
    /\ listed = None
    /\ cli = [c \in Callers |-> IdleCli]
    /\ files = NoFiles

\* a user runs `start`, `stop` or `exec` for the profile named n
CliInvoke(c, command, n) ==
    /\ cli[c].pc = "idle"
    /\ cli' = [cli EXCEPT ![c] = [IdleCli EXCEPT !.pc = "require",
                                                 !.command = command,
                                                 !.name = n]]
    /\ UNCHANGED <<sessions, pc, op, ret, calls, elapsed, sleeps, lag, present,
                   proc, listed>>
    /\ UNCHANGED files

\* the precondition check of the command of process c
CliRequire(c) ==
    \E result \in ScreenLs(sessions) :
        LET p == cli[c]
            found == exists(result, to_local_name(p.name))
            checked == is_server_running(found)
            verdict == IF p.command = "start" THEN require_stopped(checked)
                       ELSE require_running(checked)
        IN /\ cli' = [cli EXCEPT ![c] =
                        [p EXCEPT !.observed = Some(found),
                                  !.outcome = verdict,
                                  !.pc = IF verdict = "ok" THEN "call" ELSE "exit"]]
           /\ UNCHANGED sessions
    /\ UNCHANGED files

\* the controller call of the command of process c, up to its first wait
CliCall(c) ==
    \E rc \in ExitCodes :
        LET p == cli[c]
            local_name == to_local_name(p.name)
            cmd == <<"c", "d", " ">> \o Workdir \o <<" ", "&", "&", " ">> \o Entrypoint
            r == CASE p.command = "start" -> create(CommandResult(rc), local_name, cmd)
                   [] p.command = "exec" -> stuff(CommandResult(rc), local_name, SayText)
                   [] OTHER -> stuff(CommandResult(rc), local_name, StopText)
            made == IF p.command = "start"
                    THEN Call("create", local_name, <<cmd>>, Some(r))
                    ELSE Call("stuff", local_name,
                              <<IF p.command = "exec" THEN SayText ELSE StopText>>, Some(r))
        IN /\ IF p.command = "start"
              THEN /\ rc = 0 => Len(sessions) < MaxSessions
                   /\ sessions' = IF rc = 0
                                  THEN Append(sessions,
                                              [pid |-> NewPid(sessions),
                                               name |-> _normalize_name(local_name)])
                                  ELSE sessions
              ELSE /\ rc = 0 => Registered(sessions, _normalize_name(local_name))
                   /\ UNCHANGED sessions
           /\ cli' = [cli EXCEPT ![c] =
                        [p EXCEPT !.calls = <<made>>,
                                  !.outcome = IF is_error(r) THEN "Abort" ELSE "ok",
                                  !.pc = IF p.command = "stop" /\ is_success(r)
                                         THEN "wait" ELSE "exit"]]
    /\ UNCHANGED files

\* one pass of the wait_term of the `stop` of process c, at any time of the
\* clock
CliWait(c) ==
    \E result \in ScreenLs(sessions), now \in {0, StopTimeout + 1} :
        LET p == cli[c]
            r == wait_term_pass(result, to_local_name(p.name), Some(StopTimeout), now)
        IN /\ cli' = [cli EXCEPT ![c] =
                        IF r = None THEN p
                        ELSE [p EXCEPT !.outcome = IF is_error(r[1]) THEN "Abort" ELSE "ok",
                                       !.pc = "exit"]]
           /\ UNCHANGED sessions
    /\ UNCHANGED files

\* process c runs up to its next external command
CliStep(c) ==
    /\ cli[c].pc \in {"require", "call", "wait"}
    /\ IF cli[c].pc = "require" THEN CliRequire(c)
       ELSE IF cli[c].pc = "call" THEN CliCall(c)
       ELSE CliWait(c)
    /\ UNCHANGED <<pc, op, ret, calls, elapsed, sleeps, lag, present, proc, listed>>

\* the process of c has exited
CliReap(c) ==
    /\ cli[c].pc = "exit"
    /\ cli' = [cli EXCEPT ![c] = IdleCli]
    /\ UNCHANGED <<sessions, pc, op, ret, calls, elapsed, sleeps, lag, present,
                   proc, listed>>
    /\ UNCHANGED files

\* a server of one of the profiles is started by other means
ServerAppears(n) ==
    /\ Len(sessions) < MaxSessions
    /\ sessions' = Append(sessions, [pid |-> NewPid(sessions),
                                     name |-> _normalize_name(to_local_name(n))])
    /\ UNCHANGED <<pc, op, ret, calls, elapsed, sleeps, lag, present, proc,
                   listed, cli>>
    /\ UNCHANGED files

NextCli ==
    \/ \E c \in Callers, command \in CliCommands, n \in CliNames : CliInvoke(c, command, n)
    \/ \E c \in Callers : CliStep(c)
    \/ \E c \in Callers : CliReap(c)
    \/ \E n \in CliNames : ServerAppears(n)
    \/ \E i \in 1..MaxSessions : SessionExit(i)

SpecCli == InitCli /\ [][NextCli]_vars

\* C18: `start` calls start_server only after is_server_running reported
\* not-running, and otherwise rejects with "already running" and calls
\* nothing; `stop` and `exec` call the controller only after it reported
\* running, and otherwise reject with "is not running".
C18_CliEnforcesPreconditions ==
    \A c \in Callers :
        LET p == cli[c]
            wanted == IF p.command = "start" THEN Some(FALSE) ELSE Some(TRUE)
        IN /\ p.calls # <<>> => p.observed = wanted
           /\ (p.pc = "exit" /\ p.observed # wanted) =>
                 /\ p.outcome = "BadParameter"
                 /\ p.calls = <<>>

\* C19: two concurrent `start` commands for the same name that both saw
\* is_server_running report not-running both went on to issue create for the
\* session of that name.
C19_BothStartsCreate ==
    (/\ \A c \in Callers :
           /\ cli[c].pc = "exit"
           /\ cli[c].command = "start"
           /\ cli[c].observed = Some(FALSE)
     /\ \A c, d \in Callers : cli[c].name = cli[d].name)
    => \A c \in Callers :
          /\ Len(cli[c].calls) = 1
          /\ cli[c].calls[1].fn = "create"
          /\ cli[c].calls[1].name = McmDash(cli[c].name)

\* what C21 says of one Result, given whether wait_term produced it
ErrorKindAllowed(r, from_wait_term) ==
    is_error(r) =>
        /\ r.error[1].error_type \in OperationErrorType
        /\ r.error[1].error_type \in {"COMMAND_FAILED", "TIMEOUT"}
        /\ r.error[1].error_type = "TIMEOUT" =>
              /\ from_wait_term
              /\ r.error[1].return_code = None

\* C21: the only error kinds any backend or controller operation produces are
\* COMMAND_FAILED and TIMEOUT; TIMEOUT comes only from wait_term, and from
\* stop_server through it, and carries no exit code.
C21_OnlyCommandFailedAndTimeout ==
    /\ (pc = "done" /\ op.kind \in {"start_server", "run_in_server",
                                    "stop_server", "list_running"})
          => ErrorKindAllowed(ret[1], op.kind = "stop_server" /\ Len(calls) = 2)
    /\ \A j \in 1..Len(calls) :
          (/\ calls[j].fn \in {"list", "create", "stuff", "wait_term"}
           /\ calls[j].result # None)
          => ErrorKindAllowed(calls[j].result[1], calls[j].fn = "wait_term")
    /\ listed # None => ErrorKindAllowed(listed[1], FALSE)

\* C21 witness: stop_server returned the TIMEOUT failure of wait_term, which
\* holds no exit code.
C21_Witness ==
    /\ StopReturned
    /\ is_error(ret[1])
    /\ ret[1].error[1].error_type = "TIMEOUT"
    /\ ret[1].error[1].return_code = None
    /\ calls[2].fn = "wait_term"

\* C22: wait_term without a timeout never returns a Timeout failure and never
\* returns while its polls report the session present: it has returned, with
\* Success, exactly when its latest poll reported the session absent, and
\* after a poll that reported it present it goes on sleeping and polling.
C22_NoTimeoutWaitsForAbsence ==
    (op.kind = "wait_term" /\ op.timeout = None) =>
        /\ pc = "done" <=> present = Some(FALSE)
        /\ pc = "done" => ret = Some(success(None))
        /\ pc # "done" => ret = None
        /\ present = Some(TRUE) => pc \in {"wait_sleep", "wait_poll"}
        /\ pc = "wait_sleep" => present = Some(TRUE)

\* C22 witness: a wait_term without a timeout is still waiting after several
\* sleeps, its latest poll having reported the session present.
C22_Witness ==
    /\ op.kind = "wait_term"
    /\ op.timeout = None
    /\ op.poll_interval > 0
    /\ pc = "wait_sleep"
    /\ sleeps >= 2
    /\ elapsed > MaxTimeout
    /\ present = Some(TRUE)

(***************************************************************************)
(* SpecSanitize: sanitize_filename applied to any name of up to            *)
(* MaxFilename characters, and again to what it returned.                  *)
(***************************************************************************)
FilenameChars == {"a", "B", " ", "\t", "/", "_"}

FilenameStrings == UNION { [1..k -> FilenameChars] : k \in 0..MaxFilename }

InitSanitize ==
    /\ op \in { Operation("name", n) : n \in FilenameStrings }
    /\ sessions = <<>>
    /\ pc = "idle"
    /\ ret = None
    /\ calls = <<>>
    /\ elapsed = 0
    /\ sleeps = 0
    /\ lag = 0
    /\ present = None
    /\ proc = None
    /\ listed = None
    /\ cli = NoCli
    /\ files = NoFiles

\* sanitize_filename(op.name)
Sanitize ==
    /\ pc = "idle"
    /\ op' = [op EXCEPT !.kind = "sanitize_filename"]
    /\ calls' = <<Call("sanitize_filename", op.name, <<>>,
                       Some(sanitize_filename(op.name)))>>
    /\ ret' = Some(sanitize_filename(op.name))
    /\ pc' = "sanitized"
    /\ UNCHANGED <<sessions, elapsed, sleeps, lag, present, proc, listed, cli>>
    /\ UNCHANGED files

\* sanitize_filename applied to what sanitize_filename returned
Resanitize ==
    /\ pc = "sanitized"
    /\ calls' = Append(calls, Call("sanitize_filename", ret[1], <<>>,
                                   Some(sanitize_filename(ret[1]))))
    /\ ret' = Some(sanitize_filename(ret[1]))
    /\ pc' = "done"
    /\ UNCHANGED <<sessions, op, elapsed, sleeps, lag, present, proc, listed, cli>>
    /\ UNCHANGED files

NextSanitize ==
    \/ Sanitize
    \/ Resanitize

SpecSanitize == InitSanitize /\ [][NextSanitize]_vars

\* the lowercased name, stripped of leading and trailing whitespace, with
\* every maximal run of illegal characters and whitespace made one underscore
TrimmedAndCollapsed(name) == ReSubIllegals(Strip(Lower(name), Whitespace), FALSE)

\* C23: sanitize_filename returns the lowercased name with leading and
\* trailing whitespace removed and every maximal run of < > : " / \ | ? * and
\* whitespace replaced by one underscore; the result holds none of those
\* characters, and sanitizing it again changes nothing.
C23_SanitizeTrimsAndCollapses ==
    (op.kind = "sanitize_filename" /\ Contains(op.name, "a")) =>
        /\ calls[1].result = Some(TrimmedAndCollapsed(op.name))
        /\ \A i \in 1..Len(calls[1].result[1]) : calls[1].result[1][i] \notin Illegals
        /\ Len(calls) = 2 => calls[2].result = calls[1].result

(***************************************************************************)
(* SpecStop: stop_server on its own, polls and sleeps taking any time the  *)
(* bounds allow, the session exiting at any moment or never.  The thread   *)
(* in wait_term keeps running: a time.sleep it started ends (weak fairness *)
(* of WaitSleep), and a listing command it started returns.  WaitPoll is   *)
(* enabled exactly when pc = "wait_poll" and every WaitPoll step leaves    *)
(* that position, so weak fairness of WaitPoll is written as               *)
(* []<>(pc # "wait_poll").                                                 *)
(***************************************************************************)
NextStop ==
    \/ \E n \in Names : StopServer(n)
    \/ \E d \in 0..MaxPollCost : WaitPoll(d)
    \/ \E o \in 0..MaxOversleep : WaitSleep(o)
    \/ Ack
    \/ \E i \in 1..MaxSessions : SessionExit(i)

SpecStop ==
    /\ InitWait
    /\ [][NextStop]_vars
    /\ []<>(pc # "wait_poll")
    /\ WF_vars(\E o \in 0..MaxOversleep : WaitSleep(o))

\* C24: stop_server always terminates: it returns after at most 12 existence
\* polls (11 sleeps of the poll interval 1 against the timeout 10), whatever
\* the session does, and never blocks forever.
C24_StopServerTerminates ==
    /\ [](op.kind = "stop_server" => sleeps <= 11)
    /\ (op.kind = "stop_server") ~> (pc = "done")

\* C24 witness: stop_server returned at its twelfth poll, the session still
\* there.
C24_Witness ==
    /\ StopReturned
    /\ sleeps = 11
    /\ elapsed = 11
    /\ Registered(sessions, SessionName(op.name))

\* the logical names start_server turns into the session name s
StartedAs(s) == { n \in Names : SessionName(n) = s }

\* C25: while the session start_server created for the logical name n is
\* registered, a list_running() that succeeds holds a HostDescriptor whose
\* name is n exactly, upper case and sanitized characters included.  Stated
\* for the names without a dot: the descriptor names one of the logical names
\* the session can have been started with.
C25_ListRunningRecoversName ==
    (ListRunningReturned /\ is_success(ret[1])) =>
        \A i \in 1..Len(sessions) :
            (/\ StartedAs(sessions[i].name) # {}
             /\ ~Contains(sessions[i].name, "."))
            => \E k \in 1..Len(ret[1].value[1]) :
                  ret[1].value[1][k].name \in StartedAs(sessions[i].name)

\* C26: create, stuff, wait_term and exists all address the session named
\* sanitize_filename(name), so the session a start created is the one a later
\* wait polls for: when a session of that name is in the table at the poll
\* wait_term returned from, and the listing succeeded, the poll found it.
C26_WaitPollsTheCreatedSession ==
    (/\ WaitReturned
     /\ is_success(listed[1])
     /\ Registered(sessions, sanitize_filename(op.name))) => present = Some(TRUE)

\* C27: in each pass wait_term polls existence before it tests the deadline:
\* it returns the TIMEOUT failure only when the poll just made reported the
\* session present (and the deadline has passed), and it returns Success when
\* that poll reported the session absent, also after the deadline.
C27_AbsenceBeforeDeadline ==
    WaitReturned =>
        /\ is_error(ret[1]) =>
              /\ present = Some(TRUE)
              /\ ret[1].error[1].error_type = "TIMEOUT"
              /\ op.timeout # None
              /\ elapsed > op.timeout[1]
        /\ present = Some(FALSE) => ret[1] = success(None)
        /\ present # None

\* C27 witness: after sleeping past the deadline, wait_term found the session
\* absent and returned Success.
C27_Witness ==
    /\ WaitReturned
    /\ sleeps >= 1
    /\ op.timeout # None
    /\ elapsed > op.timeout[1]
    /\ present = Some(FALSE)
    /\ ret[1] = success(None)

(***************************************************************************)
(* profiles.py: FileProfileRepository over a directory of .yml files.  A   *)
(* file is [path, text]; a Profile is reduced to its name and entrypoint,  *)
(* and its YAML text is the sequence of its key/value pairs.               *)
(***************************************************************************)
Profile(name, entrypoint) == [name |-> name, entrypoint |-> entrypoint]

\* yaml.safe_dump(config.as_dict(), sort_keys=False)
safe_dump(config) == << <<"name", config.name>>, <<"entrypoint", config.entrypoint>> >>

\* Profile(**yaml.safe_load(text))
safe_load(text) == Profile(text[1][2], text[2][2])

\* path.is_file()
is_file(fs, path) == \E f \in fs : f.path = path

\* path.read_text()
read_text(fs, path) == (CHOOSE f \in fs : f.path = path).text

\* FileProfileRepository.__scoped_name
scoped_name(name) == sanitize_filename(name)

\* FileProfileRepository.__scoped_path
scoped_path(name) == name \o <<".", "y", "m", "l">>

\* FileProfileRepository.__try_load
try_load(fs, path) ==
    IF ~is_file(fs, path) THEN None ELSE Some(safe_load(read_text(fs, path)))

\* FileProfileRepository.__find_profile: the expected file first, then any
\* file of the directory that holds a profile of that name
find_profile(fs, query) ==
    LET expected_path == scoped_path(scoped_name(query))
        current == try_load(fs, expected_path)
        matching == { f \in fs : try_load(fs, f.path)[1].name = query }
    IN IF current # None /\ current[1].name = query THEN current
       ELSE IF matching # {} THEN try_load(fs, (CHOOSE f \in matching : TRUE).path)
       ELSE None

\* FileProfileRepository.load: the profile it returns or the exception it raises
load(fs, name) ==
    LET loaded == find_profile(fs, name)
    IN IF loaded # None THEN [returned |-> loaded, raised |-> None]
       ELSE [returned |-> None, raised |-> Some("ProfileNotFoundError")]

\* the path FileProfileRepository.save writes
save_path(name) == scoped_path(scoped_name(name))

\* FileProfileRepository.save: the directory after open(path, 'w+') and write
save(fs, name, config) ==
    { f \in fs : f.path # save_path(name) }
    \cup { [path |-> save_path(name), text |-> safe_dump(config)] }

\* FileProfileRepository.exists
profile_exists(fs, name) == find_profile(fs, name) # None

(***************************************************************************)
(* SpecProfiles: any sequence of up to MaxSaves saves of profiles under    *)
(* their own names, as the CLI saves them, with loads and existence checks *)
(* in between.  calls logs the saves.                                      *)
(***************************************************************************)
ProfileNames == { <<"a">>, <<"A">>, <<"a", " ", "b">>, <<"a", "_", "b">> }

ProfileEntrypoints == { <<"x">>, <<"y">> }

Profiles == { Profile(n, e) : n \in ProfileNames, e \in ProfileEntrypoints }

\* profile_repository.save(p.name, p)
SaveProfile(p) ==
    /\ pc \in {"idle", "done"}
    /\ Len(calls) < MaxSaves
    /\ files' = save(files, p.name, p)
    /\ calls' = Append(calls, Call("save", p.name, <<p>>, Some(save_path(p.name))))
    /\ op' = Operation("save", p.name)
    /\ ret' = Some(save_path(p.name))
    /\ pc' = "done"
    /\ UNCHANGED <<sessions, elapsed, sleeps, lag, present, proc, listed, cli>>

\* profile_repository.load(q)
LoadProfile(q) ==
    /\ pc \in {"idle", "done"}
    /\ op' = Operation("load", q)
    /\ ret' = Some(load(files, q))
    /\ pc' = "done"
    /\ UNCHANGED <<sessions, calls, elapsed, sleeps, lag, present, proc, listed,
                   cli, files>>

\* profile_repository.exists(q)
ExistsProfile(q) ==
    /\ pc \in {"idle", "done"}
    /\ op' = Operation("exists", q)
    /\ ret' = Some(profile_exists(files, q))
    /\ pc' = "done"
    /\ UNCHANGED <<sessions, calls, elapsed, sleeps, lag, present, proc, listed,
                   cli, files>>

NextProfiles ==
    \/ \E p \in Profiles : SaveProfile(p)
    \/ \E q \in ProfileNames : LoadProfile(q)
    \/ \E q \in ProfileNames : ExistsProfile(q)

SpecProfiles == Init /\ [][NextProfiles]_vars

\* the saves of a profile named q, by their position in the log
SavesOf(q) == { i \in 1..Len(calls) : calls[i].name = q }

\* the profile the latest save of the name q stored
LatestSaved(q) ==
    calls[CHOOSE i \in SavesOf(q) : \A j \in SavesOf(q) : j <= i].args[1]

\* C28: after save(p.name, p), exists(p.name) is true and load(p.name) returns
\* a profile equal to p, also after later saves of profiles with other names,
\* names that differ only by case, spaces or sanitized characters included;
\* load(q) raises ProfileNotFoundError exactly when no profile named q was
\* saved.
C28_SavedProfileLoadsBack ==
    /\ (pc = "done" /\ op.kind = "load") =>
          IF SavesOf(op.name) # {}
          THEN ret[1] = [returned |-> Some(LatestSaved(op.name)), raised |-> None]
          ELSE ret[1] = [returned |-> None, raised |-> Some("ProfileNotFoundError")]
    /\ (pc = "done" /\ op.kind = "exists") => (ret[1] <=> SavesOf(op.name) # {})

(***************************************************************************)
(* utils.py: generate_unique_path, and the part of the backup command of   *)
(* cli/server.py that names and creates the archive.  The directory is     *)
(* `files`; a path is the file name under the root.                        *)
(***************************************************************************)
Digits == <<"0", "1", "2", "3", "4", "5", "6", "7", "8", "9">>

\* str(n) for n >= 0
RECURSIVE Str(_)
Str(n) == IF n < 10 THEN <<Digits[n + 1]>> ELSE Str(n \div 10) \o <<Digits[(n % 10) + 1]>>

\* sanitize_extension(extension); extension is None or a string
sanitize_extension(extension) ==
    IF extension = None THEN <<>>
    ELSE LET stripped == Strip(extension[1], Whitespace)
         IN IF Len(stripped) = 0 THEN <<>>
            ELSE IF StartsWith(stripped, <<".">>) THEN Tail(stripped)
            ELSE stripped

\* the timestamp generate_backup_name takes from datetime.today()
Today == <<"d">>

\* generate_backup_name(name, isWorldOnly)
generate_backup_name(name, isWorldOnly) ==
    sanitize_filename(name) \o <<" ">> \o Today \o <<" ">>
    \o (IF isWorldOnly THEN <<"[", "w", "]">> ELSE <<"[", "s", "]">>)

\* path.exists() for a path under the root
path_exists(fs, path) == \E f \in fs : f.path = path

\* root.joinpath(f"{base_name}.{extension}")
first_path(base_name, extension) == base_name \o <<".">> \o extension

\* root.joinpath(f"{base_name}-{index}.{extension}")
indexed_path(base_name, index, extension) ==
    base_name \o <<"-">> \o Str(index) \o <<".">> \o extension

(***************************************************************************)
(* SpecBackups: the steps the backup command takes after its               *)
(* require_stopped check (C18), lines 145-151 of cli/server.py, in backups *)
(* made one after the other into a directory that other files of the same  *)
(* names may already be in.  Nothing else changes the directory between    *)
(* the call of generate_unique_path and the creation of the archive.  The  *)
(* loop is a step of a running process, so it is taken when it can be.     *)
(***************************************************************************)
BackupNames == { <<"a">> }

Extensions == { Some(<<"g", "z">>), Some(<<".", "g", "z">>) }

BaseNames == { generate_backup_name(n, w) : n \in BackupNames, w \in BOOLEAN }

\* the file names other files of the directory may have
OtherPaths ==
    { first_path(b, <<"g", "z">>) : b \in BaseNames }
    \cup { indexed_path(b, k, <<"g", "z">>) : b \in BaseNames, k \in 1..MaxFiles }

\* generate_unique_path(root, lambda: base_name, extension), up to the loop
GenerateUniquePath(base_name, extension) ==
    /\ pc = "idle"
    /\ op' = [kind |-> "generate_unique_path", name |-> base_name,
              poll_interval |-> 0, timeout |-> None,
              extension |-> sanitize_extension(extension),
              given |-> extension, index |-> 1]
    /\ ret' = Some(first_path(base_name, sanitize_extension(extension)))
    /\ pc' = "path_exists"
    /\ UNCHANGED <<sessions, calls, elapsed, sleeps, lag, present, proc, listed,
                   cli, files>>

\* the loop tested with `if` in place of `while`
UniquePathLoop_Once ==
    /\ pc = "path_exists"
    /\ IF path_exists(files, ret[1])
       THEN /\ ret' = Some(indexed_path(op.name, op.index, op.extension))
            /\ op' = [op EXCEPT !.index = @ + 1]
            /\ pc' = "done"
       ELSE /\ pc' = "done"
            /\ UNCHANGED <<op, ret>>
    /\ UNCHANGED <<sessions, calls, elapsed, sleeps, lag, present, proc, listed,
                   cli, files>>

\* one test of `while path.exists()`: the next candidate, or the return
UniquePathLoop ==
    /\ pc = "path_exists"
    /\ IF path_exists(files, ret[1])
       THEN /\ ret' = Some(indexed_path(op.name, op.index, op.extension))
            /\ op' = [op EXCEPT !.index = @ + 1]
            /\ pc' = "path_exists"
       ELSE /\ pc' = "done"
            /\ UNCHANGED <<op, ret>>
    /\ UNCHANGED <<sessions, calls, elapsed, sleeps, lag, present, proc, listed,
                   cli, files>>

\* create_backup(dir_to_backup, backup_file, progress): tarfile.open(output,
\* "w:gz") creates the file, or truncates the one that is there
CreateBackup ==
    /\ pc = "done"
    /\ op.kind = "generate_unique_path"
    /\ Cardinality(files) < MaxFiles
    /\ files' = { f \in files : f.path # ret[1] }
                \cup { [path |-> ret[1], text |-> <<"tar", Str(Cardinality(files))>>] }
    /\ pc' = "idle"
    /\ op' = NoOp
    /\ ret' = None
    /\ UNCHANGED <<sessions, calls, elapsed, sleeps, lag, present, proc, listed, cli>>

\* a file that is not a backup of this program appears in the directory
OtherFile(path) ==
    /\ pc = "idle"
    /\ Cardinality(files) < MaxFiles
    /\ ~path_exists(files, path)
    /\ files' = files \cup { [path |-> path, text |-> <<>>] }
    /\ UNCHANGED <<sessions, pc, op, ret, calls, elapsed, sleeps, lag, present,
                   proc, listed, cli>>

NextBackups ==
    \/ \E b \in BaseNames, e \in Extensions : GenerateUniquePath(b, e)
    \/ UniquePathLoop
    \/ CreateBackup
    \/ \E path \in OtherPaths : OtherFile(path)

SpecBackups == Init /\ [][NextBackups]_vars /\ WF_vars(UniquePathLoop)

UniquePathReturned == pc = "done" /\ op.kind = "generate_unique_path"

\* "<base>.gz" for k = 0, "<base>-<k>.gz" for k in 1..9
NthName(base, k) ==
    IF k = 0 THEN base \o <<".", "g", "z">>
    ELSE base \o <<"-", Digits[k + 1], ".", "g", "z">>

\* C29: generate_unique_path terminates, after at most one test per existing
\* file and one more, and returns a path that is not in the directory:
\* "<base>.<ext>" if that is free, otherwise "<base>-<k>.<ext>" for the
\* smallest k >= 1 that is free; and creating the backup there leaves every
\* file that was in the directory as it was.
C29_UniquePathIsFirstFree ==
    /\ [](op.kind = "generate_unique_path" =>
            /\ op.index <= Cardinality(files) + 1
            /\ UniquePathReturned =>
                  /\ ~path_exists(files, ret[1])
                  /\ \E k \in 0..Cardinality(files) :
                        /\ ret[1] = NthName(op.name, k)
                        /\ \A j \in 0..(k - 1) : path_exists(files, NthName(op.name, j)))
    /\ (pc = "path_exists") ~> UniquePathReturned
    /\ [][UniquePathReturned => \A f \in files : f \in files']_vars

\* C29 witness: with "<base>.gz" and "<base>-1.gz" in the directory,
\* generate_unique_path given the extension ".gz" returned "<base>-2.gz".
C29_Witness ==
    /\ UniquePathReturned
    /\ op.given = Some(<<".", "g", "z">>)
    /\ path_exists(files, NthName(op.name, 0))
    /\ path_exists(files, NthName(op.name, 1))
    /\ ret[1] = NthName(op.name, 2)

====
